---- MODULE Spec2Model ----
(***************************************************************************)
(* User service (services/user-service/src/app.py): registration, login,   *)
(* bearer-token issuance and verification over the in-memory users_db.     *)
(*                                                                         *)
(* Modelling conventions                                                   *)
(*  - The handlers are `async def` bodies without an await, so each one    *)
(*    runs to completion on the event loop: one atomic action per handler. *)
(*  - Time is the UTC clock at the resolution of the token's exp claim,    *)
(*    counted in minutes (all durations in the source are minutes).        *)
(*  - bcrypt is a salted one-way function: the hash is the pair of the     *)
(*    salt and the digest of (salt, password); checkpw re-hashes with the  *)
(*    salt stored in the hash.  Secrets range over inputs inside bcrypt's  *)
(*    input size.                                                          *)
(*  - A JWT is its header algorithm, its payload and the HS256 MAC of both *)
(*    under the signing key; decode checks structure, algorithm, MAC and   *)
(*    exp, in that order.                                                  *)
(*  - Optional[T] is a sequence of length <= 1 (<<>> is None).             *)
(*  - Spec serves one request after the other.  ConcSpec serves several    *)
(*    register requests at once: every statement of register_user is a     *)
(*    step of its coroutine, and the event loop switches coroutines only   *)
(*    where the running one awaits.                                        *)
(***************************************************************************)
EXTENDS Integers, Sequences, FiniteSets, TLC

VARIABLES users_db, now, issued, request, response, secretOf, pending, running

vars == <<users_db, now, issued, request, response, secretOf, pending, running>>

\* the coroutines of concurrently served requests and the one the event
\* loop is executing (0 when it is idle)
loop == <<pending, running>>

----------------------------------------------------------------------------
(* Bounds of the exploration *)

MaxUsers == 3

MaxTokens == 1

MaxNow == 45

\* register requests served at the same time
MaxRequests == 2

Requests == 1..MaxRequests

TickSteps == {15}

Emails == {"admin@example.com", "a@x.com", "b@x.com"}

Handles == {"admin", "alice"}

Secrets == {"admin123", "pw123"}

FullNames == {"Alice"}

Salts == {1, 2}

Deltas == {<<>>, <<0>>, <<30>>}

\* claim sets handed to create_access_token: a registered handle, a handle
\* nobody registered, and a claim set without "sub"
Datas == {[sub |-> "admin"], [sub |-> "ghost"], [scope |-> "read"]}

----------------------------------------------------------------------------
(* Configuration and constants of the source *)

SECRET_KEY == "your-secret-key-change-in-production"

ALGORITHM == "HS256"

DefaultExpireMinutes == 15

LoginExpireMinutes == 30

HTTP_400_BAD_REQUEST == 400

HTTP_401_UNAUTHORIZED == 401

HTTP_404_NOT_FOUND == 404

----------------------------------------------------------------------------
(* Credential hasher *)

bcrypt_hashpw(password, salt) ==
    [salt |-> salt, digest |-> <<salt, password>>]

bcrypt_checkpw(password, hashed) ==
    bcrypt_hashpw(password, hashed.salt) = hashed

hash_password(password, salt) == bcrypt_hashpw(password, salt)

verify_password_saltonly(password, hashed_password) ==
    bcrypt_hashpw(password, hashed_password.salt).salt = hashed_password.salt

verify_password(password, hashed_password) ==
    bcrypt_checkpw(password, hashed_password)

----------------------------------------------------------------------------
(* Token codec *)

Hmac(key, alg, payload) == [key |-> key, alg |-> alg, payload |-> payload]

jwt_encode(payload, key, alg) ==
    [wellformed |-> TRUE, alg |-> alg, payload |-> payload,
     sig |-> Hmac(key, alg, payload)]

jwt_decode_noexp(token, key, algorithms, t) ==
    IF ~token.wellformed THEN [ok |-> FALSE, error |-> "DecodeError"]
    ELSE IF token.alg \notin algorithms
        THEN [ok |-> FALSE, error |-> "InvalidAlgorithmError"]
    ELSE IF token.sig # Hmac(key, token.alg, token.payload)
        THEN [ok |-> FALSE, error |-> "InvalidSignatureError"]
    ELSE [ok |-> TRUE, error |-> "", payload |-> token.payload]

jwt_decode_nosig(token, key, algorithms, t) ==
    IF ~token.wellformed THEN [ok |-> FALSE, error |-> "DecodeError"]
    ELSE IF token.alg \notin algorithms
        THEN [ok |-> FALSE, error |-> "InvalidAlgorithmError"]
    ELSE IF "exp" \in DOMAIN token.payload /\ token.payload.exp <= t
        THEN [ok |-> FALSE, error |-> "ExpiredSignatureError"]
    ELSE [ok |-> TRUE, error |-> "", payload |-> token.payload]

jwt_decode(token, key, algorithms, t) ==
    IF ~token.wellformed THEN [ok |-> FALSE, error |-> "DecodeError"]
    ELSE IF token.alg \notin algorithms
        THEN [ok |-> FALSE, error |-> "InvalidAlgorithmError"]
    ELSE IF token.sig # Hmac(key, token.alg, token.payload)
        THEN [ok |-> FALSE, error |-> "InvalidSignatureError"]
    ELSE IF "exp" \in DOMAIN token.payload /\ token.payload.exp <= t
        THEN [ok |-> FALSE, error |-> "ExpiredSignatureError"]
    ELSE [ok |-> TRUE, error |-> "", payload |-> token.payload]

Truthy(expires_delta) == expires_delta # <<>> /\ expires_delta[1] # 0

create_access_token_noadd(data, expires_delta, t) ==
    LET expire == IF Truthy(expires_delta)
                  THEN t
                  ELSE t + DefaultExpireMinutes
    IN  jwt_encode([exp |-> expire] @@ data, SECRET_KEY, ALGORITHM)

create_access_token(data, expires_delta, t) ==
    LET expire == IF Truthy(expires_delta)
                  THEN t + expires_delta[1]
                  ELSE t + DefaultExpireMinutes
    IN  jwt_encode([exp |-> expire] @@ data, SECRET_KEY, ALGORITHM)

Unauthorized ==
    [status |-> HTTP_401_UNAUTHORIZED,
     detail |-> "Could not validate credentials", body |-> <<>>]

\* a verification that refuses the token of the request served just before
verify_token_singleuse(credentials, t) ==
    LET decoded == jwt_decode(credentials, SECRET_KEY, {ALGORITHM}, t)
    IN  IF request.op \in {"me", "list"} /\ request.token = credentials
        THEN <<>>
        ELSE IF ~decoded.ok THEN <<>>
        ELSE IF "sub" \notin DOMAIN decoded.payload THEN <<>>
        ELSE <<decoded.payload.sub>>

\* verify_token: <<username>> on success, <<>> when it raises the 401
verify_token(credentials, t) ==
    LET decoded == jwt_decode(credentials, SECRET_KEY, {ALGORITHM}, t)
    IN  IF ~decoded.ok THEN <<>>
        ELSE IF "sub" \notin DOMAIN decoded.payload THEN <<>>
        ELSE <<decoded.payload.sub>>

----------------------------------------------------------------------------
(* Principal registry and handlers *)

UserResponse_full(user) == user

UserResponse(user) ==
    [k \in DOMAIN user \ {"hashed_password"} |-> user[k]]

Exists_and(db, user) ==
    \E i \in 1..Len(db) :
        db[i].email = user.email /\ db[i].username = user.username

Exists_emailonly(db, user) ==
    \E i \in 1..Len(db) : db[i].email = user.email

Exists(db, user) ==
    \E i \in 1..Len(db) :
        db[i].email = user.email \/ db[i].username = user.username

FindUser_first(db, username) ==
    IF Len(db) = 0 THEN <<>> ELSE <<db[1]>>

\* first entry of db with the given username, as an Optional
FindUser(db, username) ==
    LET hits == {i \in 1..Len(db) : db[i].username = username}
    IN  IF hits = {} THEN <<>>
        ELSE <<db[CHOOSE i \in hits : \A j \in hits : i <= j]>>

NewUser_lenid(db, user, salt, t) ==
    [id |-> Len(db),
     email |-> user.email,
     username |-> user.username,
     full_name |-> user.full_name,
     hashed_password |-> hash_password(user.password, salt),
     created_at |-> t,
     is_active |-> TRUE]

NewUser(db, user, salt, t) ==
    [id |-> Len(db) + 1,
     email |-> user.email,
     username |-> user.username,
     full_name |-> user.full_name,
     hashed_password |-> hash_password(user.password, salt),
     created_at |-> t,
     is_active |-> TRUE]

LoginToken_default(user, t) ==
    create_access_token([sub |-> user.username], <<>>, t)

LoginToken_email(user, t) ==
    create_access_token([sub |-> user.email], <<LoginExpireMinutes>>, t)

LoginToken(user, t) ==
    create_access_token([sub |-> user.username], <<LoginExpireMinutes>>, t)

LoginRejected(db, cred) ==
    \/ FindUser(db, cred.username) = <<>>
    \/ ~verify_password(cred.password, FindUser(db, cred.username)[1].hashed_password)

RegisterError_field(db, user) ==
    [status |-> HTTP_400_BAD_REQUEST,
     detail |-> IF \E i \in 1..Len(db) : db[i].email = user.email
                THEN "Email already registered"
                ELSE "Username already taken",
     body |-> <<>>]

RegisterError(db, user) ==
    [status |-> HTTP_400_BAD_REQUEST, detail |-> "User already exists",
     body |-> <<>>]

AppendUser_front(db, new_user) == <<new_user>> \o db

AppendUser(db, new_user) == Append(db, new_user)

LoginError_enum(db, cred) ==
    IF FindUser(db, cred.username) = <<>>
    THEN [status |-> HTTP_404_NOT_FOUND, detail |-> "User not found",
          body |-> <<>>]
    ELSE [status |-> HTTP_401_UNAUTHORIZED,
          detail |-> "Incorrect username or password", body |-> <<>>]

LoginError(db, cred) ==
    [status |-> HTTP_401_UNAUTHORIZED,
     detail |-> "Incorrect username or password", body |-> <<>>]

----------------------------------------------------------------------------
(* Token strings a client can present *)

\* the tokens clients still hold: at most MaxTokens, the oldest forgotten
Hold(held, e) ==
    LET all == held \cup {e}
    IN  IF Cardinality(all) <= MaxTokens THEN all
        ELSE all \ {CHOOSE x \in held : \A y \in held : x.at <= y.at}

Garbage ==
    [wellformed |-> FALSE, alg |-> "", payload |-> [exp |-> 0],
     sig |-> Hmac("", "", [exp |-> 0])]

IssuedTokens == {e.token : e \in issued}

\* an issued token with its payload altered and the signature kept
Tampered ==
    {[tok EXCEPT !.payload.sub = h] :
        tok \in {k \in IssuedTokens : "sub" \in DOMAIN k.payload},
        h \in Handles} \cup
    {[tok EXCEPT !.payload.exp = @ + LoginExpireMinutes] : tok \in IssuedTokens}

\* tokens made without the signing key
Forged ==
    {jwt_encode([sub |-> "admin", exp |-> MaxNow + 1], "attacker-key", ALGORITHM),
     [wellformed |-> TRUE, alg |-> "none",
      payload |-> [sub |-> "admin", exp |-> MaxNow + 1],
      sig |-> Hmac("", "none", [sub |-> "admin", exp |-> MaxNow + 1])]}

Presentable == IssuedTokens \cup (Tampered \ IssuedTokens) \cup Forged \cup {Garbage}

----------------------------------------------------------------------------
(* Outcomes of the token-protected routes *)

\* GET /users/me
UsersMe(db, token, t) ==
    LET current_username == verify_token(token, t)
        user == IF current_username = <<>> THEN <<>>
                ELSE FindUser(db, current_username[1])
    IN  IF current_username = <<>> THEN Unauthorized
        ELSE IF user = <<>>
             THEN [status |-> HTTP_404_NOT_FOUND,
                   detail |-> "User not found", body |-> <<>>]
             ELSE [status |-> 200, detail |-> "",
                   body |-> <<UserResponse(user[1])>>]

Users_nogate(db, token, t) ==
    [status |-> 200, detail |-> "",
     body |-> [i \in 1..Len(db) |-> UserResponse(db[i])]]

\* GET /users
Users(db, token, t) ==
    LET current_username == verify_token(token, t)
    IN  IF current_username = <<>> THEN Unauthorized
        ELSE [status |-> 200, detail |-> "",
              body |-> [i \in 1..Len(db) |-> UserResponse(db[i])]]

----------------------------------------------------------------------------
(* State machine *)

Init ==
    /\ \E salt \in Salts :
         users_db = << [id |-> 1,
                        email |-> "admin@example.com",
                        username |-> "admin",
                        full_name |-> "System Administrator",
                        hashed_password |-> bcrypt_hashpw("admin123", salt),
                        created_at |-> 0,
                        is_active |-> TRUE] >>
    /\ now = 0
    /\ issued = {}
    /\ request = [op |-> "none"]
    /\ response = [status |-> 0, detail |-> "", body |-> <<>>]
    /\ secretOf = [h \in {"admin"} |-> "admin123"]
    /\ pending = [r \in Requests |-> [pc |-> "idle"]]
    /\ running = 0

Tick ==
    \E d \in TickSteps :
        /\ now + d <= MaxNow
        /\ now' = now + d
        /\ UNCHANGED <<users_db, issued, request, response, secretOf, loop>>

register_user ==
    \E email \in Emails, username \in Handles, password \in Secrets,
       full_name \in FullNames, salt \in Salts :
        LET user == [email |-> email, username |-> username,
                     password |-> password, full_name |-> full_name]
        IN  /\ request' = [op |-> "register", user |-> user, at |-> now]
            /\ IF Exists(users_db, user)
               THEN /\ response' = RegisterError(users_db, user)
                    /\ UNCHANGED <<users_db, secretOf>>
               ELSE /\ Len(users_db) < MaxUsers
                    /\ users_db' = AppendUser(users_db,
                                          NewUser(users_db, user, salt, now))
                    /\ response' =
                         [status |-> 200, detail |-> "",
                          body |-> <<UserResponse(
                                       NewUser(users_db, user, salt, now))>>]
                    /\ secretOf' = [h \in DOMAIN secretOf \cup {username} |->
                                      IF h \in DOMAIN secretOf
                                      THEN secretOf[h] ELSE password]
            /\ UNCHANGED <<now, issued, loop>>

login ==
    \E username \in Handles, password \in Secrets \cup {"wrong"} :
        LET cred == [username |-> username, password |-> password]
            user == FindUser(users_db, username)
        IN  /\ request' = [op |-> "login", username |-> username,
                           password |-> password, at |-> now]
            /\ IF LoginRejected(users_db, cred)
               THEN /\ response' = LoginError(users_db, cred)
                    /\ UNCHANGED issued
               ELSE /\ issued' = Hold(issued,
                          [token |-> LoginToken(user[1], now),
                           data |-> [sub |-> user[1].username],
                           expires_delta |-> <<LoginExpireMinutes>>,
                           at |-> now])
                    /\ response' =
                         [status |-> 200, detail |-> "",
                          body |-> <<[access_token |-> LoginToken(user[1], now),
                                      token_type |-> "bearer"]>>]
            /\ UNCHANGED <<users_db, now, secretOf, loop>>

get_current_user ==
    \E token \in Presentable :
        /\ request' = [op |-> "me", token |-> token, at |-> now]
        /\ response' = UsersMe(users_db, token, now)
        /\ UNCHANGED <<users_db, now, issued, secretOf, loop>>

list_users ==
    \E token \in Presentable :
        /\ request' = [op |-> "list", token |-> token, at |-> now]
        /\ response' = Users(users_db, token, now)
        /\ UNCHANGED <<users_db, now, issued, secretOf, loop>>

\* a direct call of create_access_token (the codec used on its own)
issue_token ==
    \E data \in Datas, expires_delta \in Deltas :
        /\ issued' = Hold(issued,
              [token |-> create_access_token(data, expires_delta, now),
               data |-> data, expires_delta |-> expires_delta, at |-> now])
        /\ request' = [op |-> "issue", data |-> data,
                       expires_delta |-> expires_delta, at |-> now]
        /\ response' =
             [status |-> 200, detail |-> "",
              body |-> <<[access_token |->
                            create_access_token(data, expires_delta, now)]>>]
        /\ UNCHANGED <<users_db, now, secretOf, loop>>

\* a direct call of the verify_token dependency
check_token ==
    \E token \in Presentable :
        LET current_username == verify_token(token, now)
        IN  /\ request' = [op |-> "verify", token |-> token, at |-> now]
            /\ response' =
                 IF current_username = <<>> THEN Unauthorized
                 ELSE [status |-> 200, detail |-> "",
                       body |-> <<[username |-> current_username[1]]>>]
            /\ UNCHANGED <<users_db, now, issued, secretOf, loop>>

Next == Tick \/ register_user \/ login \/ get_current_user \/ list_users

Spec == Init /\ [][Next]_vars

CodecNext ==
    Tick \/ issue_token \/ check_token \/ get_current_user \/ list_users

CodecSpec == Init /\ [][CodecNext]_vars

----------------------------------------------------------------------------
(* Concurrently served register requests *)

\* the event loop runs a coroutine from its start to its next await;
\* register_user has none, so a started coroutine keeps the loop
CanRun_threads(r) == TRUE

CanRun(r) == running = r

\* the loop is idle and takes the next request
reg_start(r) ==
    \E email \in Emails, username \in Handles \cup {"bob"},
       password \in {"pw123"}, full_name \in FullNames, salt \in Salts :
        /\ pending[r].pc = "idle"
        /\ \A q \in Requests : q < r => pending[q].pc # "idle"
        /\ running = 0 \/ CanRun(r)
        /\ pending' = [pending EXCEPT ![r] =
              [pc |-> "scan", salt |-> salt,
               user |-> [email |-> email, username |-> username,
                         password |-> password, full_name |-> full_name]]]
        /\ running' = r
        /\ UNCHANGED <<users_db, now, issued, request, response, secretOf>>

\* lines 124-129: the scan for an existing user
reg_scan(r) ==
    /\ pending[r].pc = "scan"
    /\ CanRun(r)
    /\ IF Exists(users_db, pending[r].user)
       THEN /\ pending' = [pending EXCEPT ![r] =
                  [pc |-> "done", user |-> pending[r].user,
                   result |-> RegisterError(users_db, pending[r].user)]]
            /\ running' = IF running = r THEN 0 ELSE running
       ELSE /\ pending' = [pending EXCEPT ![r].pc = "build"]
            /\ UNCHANGED running
    /\ UNCHANGED <<users_db, now, issued, request, response, secretOf>>

\* lines 132-140: new_user is built, its id from the size of users_db
reg_build(r) ==
    /\ pending[r].pc = "build"
    /\ CanRun(r)
    /\ pending' = [pending EXCEPT ![r] =
          [pc |-> "append", user |-> pending[r].user,
           new_user |-> NewUser(users_db, pending[r].user,
                                pending[r].salt, now)]]
    /\ UNCHANGED <<users_db, now, issued, request, response, secretOf, running>>

\* line 142: the append
reg_append(r) ==
    /\ pending[r].pc = "append"
    /\ CanRun(r)
    /\ users_db' = AppendUser(users_db, pending[r].new_user)
    /\ secretOf' = [h \in DOMAIN secretOf \cup {pending[r].user.username} |->
                      IF h \in DOMAIN secretOf THEN secretOf[h]
                      ELSE pending[r].user.password]
    /\ pending' = [pending EXCEPT ![r].pc = "return"]
    /\ UNCHANGED <<now, issued, request, response, running>>

\* line 145: the response; the coroutine ends and the loop is free
reg_return(r) ==
    /\ pending[r].pc = "return"
    /\ CanRun(r)
    /\ pending' = [pending EXCEPT ![r] =
          [pc |-> "done", user |-> pending[r].user,
           result |-> [status |-> 200, detail |-> "",
                       body |-> <<UserResponse(pending[r].new_user)>>]]]
    /\ running' = IF running = r THEN 0 ELSE running
    /\ UNCHANGED <<users_db, now, issued, request, response, secretOf>>

ConcNext ==
    \E r \in Requests :
        \/ reg_start(r)
        \/ reg_scan(r)
        \/ reg_build(r)
        \/ reg_append(r)
        \/ reg_return(r)

ConcSpec == Init /\ [][ConcNext]_vars

----------------------------------------------------------------------------
(* Helpers of the properties *)

EmailsOf(db) == {db[i].email : i \in 1..Len(db)}

HandlesOf(db) == {db[i].username : i \in 1..Len(db)}

\* the public fields of a stored principal, written out
Public(u) ==
    [id |-> u.id, email |-> u.email, username |-> u.username,
     full_name |-> u.full_name, created_at |-> u.created_at,
     is_active |-> u.is_active]

----------------------------------------------------------------------------
(* Properties *)

\* C1: in every reachable state no two principals of the registry share an
\* email and no two share a handle.
C1_Unique ==
    \A i, j \in 1..Len(users_db) :
        i # j => /\ users_db[i].email # users_db[j].email
                 /\ users_db[i].username # users_db[j].username

\* a Register was rejected after another one had succeeded
C1_Witness ==
    /\ Len(users_db) >= 2
    /\ request.op = "register"
    /\ response.status = 400

\* C2: a Register whose email alone or whose handle alone collides with a
\* stored principal gets the 400 "User already exists" outcome and leaves
\* the registry exactly as it was.
C2_DuplicateRejected ==
    [][ ( /\ request'.op = "register"
          /\ \/ /\ request'.user.email \in EmailsOf(users_db)
                /\ request'.user.username \notin HandlesOf(users_db)
             \/ /\ request'.user.username \in HandlesOf(users_db)
                /\ request'.user.email \notin EmailsOf(users_db) )
        => /\ response' = [status |-> 400, detail |-> "User already exists",
                           body |-> <<>>]
           /\ users_db' = users_db ]_vars

\* a Register was rejected for a handle that is taken, under a fresh email
C2_Witness ==
    /\ request.op = "register"
    /\ response.status = 400
    /\ request.user.username \in HandlesOf(users_db)
    /\ request.user.email \notin EmailsOf(users_db)

\* C3: a Login on an unknown handle and a Login on a known handle with a
\* secret other than the registered one get one and the same outcome
\* (401, "Incorrect username or password"), issue no token and leave the
\* registry unchanged.
C3_LoginCollapse ==
    [][ ( /\ request'.op = "login"
          /\ \/ request'.username \notin HandlesOf(users_db)
             \/ /\ request'.username \in DOMAIN secretOf
                /\ secretOf[request'.username] # request'.password )
        => /\ response' = [status |-> 401,
                           detail |-> "Incorrect username or password",
                           body |-> <<>>]
           /\ issued' = issued
           /\ users_db' = users_db ]_vars

\* a Login was rejected for a handle nobody registered
C3_Witness ==
    /\ request.op = "login"
    /\ request.username \notin HandlesOf(users_db)
    /\ response.status = 401

\* C4: a Login succeeds exactly when the registry holds a principal with
\* the handle and the secret is the one that principal was registered
\* with; every other Login is the 401 outcome.  secretOf records the secret
\* of every successful Register (and of the seeded admin) for good, so this
\* covers every state after the registration.
C4_LoginIff ==
    /\ DOMAIN secretOf = HandlesOf(users_db)
    /\ request.op = "login" =>
         /\ response.status = 200 <=>
              /\ request.username \in DOMAIN secretOf
              /\ secretOf[request.username] = request.password
         /\ response.status \in {200, 401}

\* a registered (not seeded) principal logged in, at a later time than its
\* registration
C4_Witness ==
    /\ request.op = "login"
    /\ response.status = 200
    /\ request.username = "alice"
    /\ \E i \in 1..Len(users_db) :
         users_db[i].username = "alice" /\ users_db[i].created_at < request.at

\* C5: every successful Login returns one token whose claim set has the
\* supplied handle as subject and the login time plus 30 minutes as expiry,
\* with the token type "bearer".
C5_LoginToken ==
    (request.op = "login" /\ response.status = 200) =>
        /\ Len(response.body) = 1
        /\ response.body[1].token_type = "bearer"
        /\ response.body[1].access_token.payload
             = [sub |-> request.username, exp |-> request.at + 30]

\* a Login succeeded at a time other than 0
C5_Witness ==
    /\ request.op = "login"
    /\ response.status = 200
    /\ request.at > 0

\* C6: a token issued for a subject with a ttl, verified before the ttl has
\* elapsed since its issuance, is accepted and yields that subject.
C6_RoundTrip ==
    request.op = "verify" =>
        \A e \in issued :
            ( /\ e.token = request.token
              /\ "sub" \in DOMAIN e.data
              /\ e.expires_delta # <<>>
              /\ request.at < e.at + e.expires_delta[1] )
            => /\ response.status = 200
               /\ response.body = <<[username |-> e.data.sub]>>

\* a token issued with a ttl was verified at a later time, inside the ttl
C6_Witness ==
    /\ request.op = "verify"
    /\ \E e \in issued :
         /\ e.token = request.token
         /\ "sub" \in DOMAIN e.data
         /\ e.expires_delta # <<>>
         /\ e.at < request.at
         /\ request.at < e.at + e.expires_delta[1]
    /\ response.status = 200

\* C7: an issued token presented at a time later than its expiry is
\* rejected by ResolveFromToken and by ListAll with the 401 outcome, which
\* carries no principal data.
C7_Expired ==
    ( /\ request.op \in {"me", "list"}
      /\ request.token \in IssuedTokens
      /\ request.at > request.token.payload.exp )
    => /\ response.status = 401
       /\ response.detail = "Could not validate credentials"
       /\ response.body = <<>>

\* ListAll was asked with an issued token after the token's expiry
C7_Witness ==
    /\ request.op = "list"
    /\ request.token \in IssuedTokens
    /\ request.at > request.token.payload.exp
    /\ response.status = 401

\* C8: issue builds expiresAt = now + ttl for every ttl that is supplied,
\* ttl = 0 included, and takes the 15-minute default only when none is
\* supplied; a token issued with ttl = 0 is rejected whenever it is
\* verified.
C8_TtlHonoured ==
    /\ \A e \in issued :
         e.token.payload.exp =
             IF e.expires_delta # <<>> THEN e.at + e.expires_delta[1]
             ELSE e.at + 15
    /\ ( /\ request.op = "verify"
         /\ \E e \in issued :
              e.token = request.token /\ e.expires_delta = <<0>> )
       => response.status = 401

\* C9: a token that issue did not produce under the signing key (garbage,
\* an issued token with its content altered, a token signed with another
\* key or with no signature) is rejected by ResolveFromToken and by ListAll
\* with the 401 outcome, never a principal projection.
C9_Forgery ==
    ( /\ request.op \in {"me", "list"}
      /\ request.token \notin IssuedTokens )
    => /\ response.status = 401
       /\ response.body = <<>>

\* ResolveFromToken was asked with an issued token whose subject was
\* altered, while the issued token itself was still valid
C9_Witness ==
    /\ request.op = "me"
    /\ request.token \notin IssuedTokens
    /\ \E tok \in IssuedTokens :
         /\ request.token.sig = tok.sig
         /\ request.token.payload.sub # tok.payload.sub
         /\ request.at < tok.payload.exp
    /\ response.status = 401

\* C10: no outcome carries a credential verifier; every profile returned by
\* Register, ResolveFromToken or ListAll is the stored principal with all
\* its fields but the verifier.
C10_NoVerifier ==
    /\ \A i \in 1..Len(response.body) :
         "hashed_password" \notin DOMAIN response.body[i]
    /\ (request.op \in {"register", "me"} /\ response.status = 200) =>
         /\ Len(response.body) = 1
         /\ \E i \in 1..Len(users_db) : response.body[1] = Public(users_db[i])
    /\ (request.op = "list" /\ response.status = 200) =>
         /\ Len(response.body) = Len(users_db)
         /\ \A i \in 1..Len(users_db) : response.body[i] = Public(users_db[i])

\* ListAll returned the seeded principal and a registered one
C10_Witness ==
    /\ request.op = "list"
    /\ response.status = 200
    /\ Len(response.body) >= 2
    /\ response.body[1].username = "admin"

\* C12: however the register requests served at the same time are
\* scheduled, no state has two principals with the same email, the same
\* handle or the same id: the uniqueness scan, the id assignment and the
\* append of one request are never interleaved with those of another.
C12_NoRace ==
    \A i, j \in 1..Len(users_db) :
        i # j => /\ users_db[i].email # users_db[j].email
                 /\ users_db[i].username # users_db[j].username
                 /\ users_db[i].id # users_db[j].id

\* two requests with the same email were both served: one was inserted,
\* the other got the 400
C12_Witness ==
    /\ pending[1].pc = "done"
    /\ pending[2].pc = "done"
    /\ pending[1].user.email = pending[2].user.email
    /\ pending[1].user.username # pending[2].user.username
    /\ pending[1].result.status = 200
    /\ pending[2].result.status = 400
    /\ Len(users_db) = 2

\* C13 as stated: the first Register against the initial registry, for
\* a@x.com / alice / pw123 / Alice, succeeds and returns id = 1 without a
\* verifier.
C13_FirstRegisterId1 ==
    [][ ( /\ Len(users_db) = 1
          /\ request'.op = "register"
          /\ request'.user = [email |-> "a@x.com", username |-> "alice",
                              password |-> "pw123", full_name |-> "Alice"] )
        => /\ response'.status = 200
           /\ Len(response'.body) = 1
           /\ response'.body[1].id = 1
           /\ "hashed_password" \notin DOMAIN response'.body[1] ]_vars

\* C13 amended: that Register succeeds and returns id = 2 (the seeded
\* administrator holds id 1), without a verifier.
C13_FirstRegisterId2 ==
    [][ ( /\ Len(users_db) = 1
          /\ request'.op = "register"
          /\ request'.user = [email |-> "a@x.com", username |-> "alice",
                              password |-> "pw123", full_name |-> "Alice"] )
        => /\ response'.status = 200
           /\ Len(response'.body) = 1
           /\ response'.body[1].id = 2
           /\ "hashed_password" \notin DOMAIN response'.body[1] ]_vars

\* the scenario's Register was served as the first one
C13_Witness ==
    /\ request.op = "register"
    /\ request.user = [email |-> "a@x.com", username |-> "alice",
                       password |-> "pw123", full_name |-> "Alice"]
    /\ response.status = 200
    /\ Len(users_db) = 2
    /\ users_db[2].username = "alice"

\* C14: every insertion gives the new principal the id (size before) + 1,
\* which is greater than every id already stored, and changes no stored
\* id; so the ids of the registry are pairwise distinct in every state.
C14_Ids ==
    [][ /\ \A i, j \in 1..Len(users_db') :
             i # j => users_db'[i].id # users_db'[j].id
        /\ users_db' # users_db =>
             /\ Len(users_db') = Len(users_db) + 1
             /\ users_db'[Len(users_db')].id = Len(users_db) + 1
             /\ \A i \in 1..Len(users_db) :
                  /\ users_db'[i].id = users_db[i].id
                  /\ users_db[i].id < users_db'[Len(users_db')].id ]_vars

\* two principals were registered after the seeded one
C14_Witness ==
    /\ Len(users_db) = 3
    /\ users_db[3].id = 3
    /\ users_db[2].id = 2

\* C11: ResolveFromToken has three outcomes.  It is the 401 when the token
\* is not an issued one, is expired or carries no subject; it is the 404
\* "User not found" when the token is valid and no principal has its
\* subject as handle; otherwise it is the public projection of the
\* principal whose handle is the token's subject, and of no other.
C11_Resolve ==
    request.op = "me" =>
        LET tok == request.token
            verified == /\ tok \in IssuedTokens
                        /\ "sub" \in DOMAIN tok.payload
                        /\ request.at < tok.payload.exp
        IN  IF ~verified
            THEN response = [status |-> 401,
                             detail |-> "Could not validate credentials",
                             body |-> <<>>]
            ELSE IF tok.payload.sub \notin HandlesOf(users_db)
            THEN response = [status |-> 404, detail |-> "User not found",
                             body |-> <<>>]
            ELSE /\ response.status = 200
                 /\ Len(response.body) = 1
                 /\ response.body[1].username = tok.payload.sub
                 /\ \E i \in 1..Len(users_db) :
                      response.body[1] = Public(users_db[i])

\* a valid token whose subject nobody registered was resolved
C11_Witness ==
    /\ request.op = "me"
    /\ request.token \in IssuedTokens
    /\ "sub" \in DOMAIN request.token.payload
    /\ request.token.payload.sub \notin HandlesOf(users_db)
    /\ response.status = 404

\* C15 as stated: ListAll returns the list exactly when ResolveFromToken on
\* the same token at the same time returns a profile, and is the 401
\* otherwise; the list is the projection of every principal in insertion
\* order.
C15_SameAsResolve ==
    request.op = "list" =>
        /\ response.status = 200 <=>
             UsersMe(users_db, request.token, request.at).status = 200
        /\ response.status # 200 => response = Unauthorized
        /\ response.status = 200 =>
             response.body = [i \in 1..Len(users_db) |-> Public(users_db[i])]

\* C15 amended: ListAll returns the list exactly when ResolveFromToken on
\* the same token at the same time is not the 401 (it returns a profile or
\* NotFound), and is the 401 otherwise; the list is the projection of every
\* principal in insertion order.
C15_SameVerifyGate ==
    request.op = "list" =>
        /\ response.status = 200 <=>
             UsersMe(users_db, request.token, request.at).status # 401
        /\ response.status # 200 => response = Unauthorized
        /\ response.status = 200 =>
             response.body = [i \in 1..Len(users_db) |-> Public(users_db[i])]

\* ListAll returned the list for a valid token that resolves to NotFound
C15_Witness ==
    /\ request.op = "list"
    /\ response.status = 200
    /\ UsersMe(users_db, request.token, request.at).status = 404

\* C16: the registry only grows, and only by a successful Register, which
\* appends one active principal at the end and leaves every stored
\* principal as it was; Login, ResolveFromToken, ListAll and a rejected
\* Register leave the registry unchanged.
C16_AppendOnly ==
    [][ /\ \/ users_db' = users_db
           \/ /\ request'.op = "register"
              /\ response'.status = 200
              /\ Len(users_db') = Len(users_db) + 1
              /\ SubSeq(users_db', 1, Len(users_db)) = users_db
              /\ users_db'[Len(users_db')].is_active = TRUE
        /\ ( /\ request'.op = "register"
             /\ response'.status = 200
             /\ <<request', response'>> # <<request, response>> )
           => Len(users_db') = Len(users_db) + 1 ]_vars

\* a Login was rejected while the registry held a registered principal
C16_Witness ==
    /\ Len(users_db) = 2
    /\ request.op = "login"
    /\ response.status = 401
    /\ request.at > users_db[2].created_at

\* C17: every rejected Register gets the one Conflict outcome, whether the
\* email, the handle or both collide, and every rejected Login gets the one
\* Unauthorized outcome, whether the handle is stored or not.
C17_NoFieldRevealed ==
    /\ (request.op = "register" /\ response.status # 200) =>
         response = [status |-> 400, detail |-> "User already exists",
                     body |-> <<>>]
    /\ (request.op = "login" /\ response.status # 200) =>
         response = [status |-> 401,
                     detail |-> "Incorrect username or password",
                     body |-> <<>>]

\* a Register was rejected whose email and handle both collide, with two
\* different principals
C17_Witness ==
    /\ request.op = "register"
    /\ response.status = 400
    /\ \E i, j \in 1..Len(users_db) :
         /\ i # j
         /\ users_db[i].email = request.user.email
         /\ users_db[j].username = request.user.username

\* C18: the subject of every token issued by Login is the handle of a
\* stored principal, in the state of the login and in every later one; so
\* ResolveFromToken on such a token before its expiry is never NotFound
\* and returns the projection of the principal that logged in.
C18_LoginSubject ==
    /\ \A e \in issued : e.token.payload.sub \in HandlesOf(users_db)
    /\ ( /\ request.op = "me"
         /\ request.token \in IssuedTokens
         /\ request.at < request.token.payload.exp )
       => /\ response.status = 200
          /\ \E i \in 1..Len(users_db) :
               /\ users_db[i].username = request.token.payload.sub
               /\ response.body = <<Public(users_db[i])>>

\* the token of a registered principal was resolved at a later time than
\* its login
C18_Witness ==
    /\ request.op = "me"
    /\ request.token \in IssuedTokens
    /\ request.token.payload.sub = "alice"
    /\ request.at > request.token.payload.exp - 30
    /\ response.status = 200

\* C19: whether an issued token is accepted depends on the token and the
\* time alone: before its expiry it is accepted, however often it was used
\* and whatever was registered or logged in since; after its expiry it is
\* rejected.
C19_Stateless ==
    ( /\ request.op \in {"me", "list"}
      /\ request.token \in IssuedTokens )
    => /\ request.at < request.token.payload.exp => response.status = 200
       /\ request.at > request.token.payload.exp => response.status = 401

\* a token was accepted after a principal had been registered since its
\* issuance
C19_Witness ==
    /\ request.op = "list"
    /\ request.token \in IssuedTokens
    /\ response.status = 200
    /\ \E i \in 1..Len(users_db) :
         users_db[i].created_at > request.token.payload.exp - 30

====
